---------------------------- MODULE Spec2Model ----------------------------
(***************************************************************************)
(* Encrypted room messaging: the cipher (utils/encryption.ts), the message *)
(* service (services/message-service.ts), the REST routes                  *)
(* (routes/message-routes.ts) and the socket handlers                      *)
(* (socket/socket-handlers.ts).                                            *)
(* With them the health checks of the monitoring service                   *)
(* (services/monitoring-service.ts) and, of the web client, the            *)
(* authentication state (contexts/AuthContext.tsx) and the typing list of  *)
(* the chat page (pages/ChatPage.tsx).                                     *)
(*                                                                         *)
(* Strings are sequences of one-character strings.  Buffers are sequences  *)
(* of bytes (0..255).                                                      *)
(***************************************************************************)
EXTENDS Integers, Sequences, FiniteSets, TLC

(***************************************************************************)
(* Program constants (config.encryption).                                  *)
(***************************************************************************)
keyLength == 32
ivLength == 16
tagLength == 16

(***************************************************************************)
(* Generic helpers.                                                        *)
(***************************************************************************)
RECURSIVE Concat(_)
Concat(ss) == IF ss = <<>> THEN <<>> ELSE Head(ss) \o Concat(Tail(ss))

RECURSIVE SumSeq(_)
SumSeq(s) == IF s = <<>> THEN 0 ELSE Head(s) + SumSeq(Tail(s))

Take(s, n) == IF n >= Len(s) THEN s ELSE SubSeq(s, 1, n)

Reverse(s) == [i \in 1..Len(s) |-> s[Len(s) + 1 - i]]

(***************************************************************************)
(* Hex encoding, buf.toString('hex'): two lowercase digits per byte.       *)
(***************************************************************************)
HexDigits == <<"0", "1", "2", "3", "4", "5", "6", "7",
               "8", "9", "a", "b", "c", "d", "e", "f">>

UpperHexDigits == <<"0", "1", "2", "3", "4", "5", "6", "7",
                    "8", "9", "A", "B", "C", "D", "E", "F">>

ToHex(bytes) ==
    Concat([i \in 1..Len(bytes) |->
              <<HexDigits[(bytes[i] \div 16) + 1], HexDigits[(bytes[i] % 16) + 1]>>])

(***************************************************************************)
(* Hex decoding, Buffer.from(str, 'hex') and the 'hex' input encoding of   *)
(* update(): digits are accepted in either case, decoding stops at the     *)
(* first pair that is not two hex digits, a trailing single digit is       *)
(* dropped.                                                                *)
(***************************************************************************)
HexValue ==
    [c \in {HexDigits[v] : v \in 1..16} \cup {UpperHexDigits[v] : v \in 1..16} |->
        (CHOOSE v \in 1..16 : HexDigits[v] = c \/ UpperHexDigits[v] = c) - 1]

HexVal(c) == IF c \in DOMAIN HexValue THEN HexValue[c] ELSE -1

\* The number of leading pairs of str that are two hex digits each.
RECURSIVE HexPairs(_, _)
HexPairs(str, k) ==
    IF 2 * k + 2 <= Len(str) /\ HexVal(str[2 * k + 1]) >= 0 /\ HexVal(str[2 * k + 2]) >= 0
    THEN HexPairs(str, k + 1)
    ELSE k

FromHex(str) ==
    [i \in 1..HexPairs(str, 0) |-> 16 * HexVal(str[2 * i - 1]) + HexVal(str[2 * i])]

(***************************************************************************)
(* UTF-8, the 'utf8' input encoding of cipher.update and output encoding   *)
(* of decipher.update.  The modelled alphabet is two ASCII letters, the    *)
(* replacement character U+FFFD and a lone surrogate U+D800 (a JavaScript  *)
(* string may hold one; the encoder writes it as U+FFFD).                  *)
(***************************************************************************)
Replacement == "U+FFFD"
LoneSurrogate == "U+D800"

Utf8Char(ch) ==
    CASE ch = "h" -> <<104>>
      [] ch = "i" -> <<105>>
      [] OTHER    -> <<239, 191, 189>>

Utf8Encode(text) == Concat([i \in 1..Len(text) |-> Utf8Char(text[i])])

RECURSIVE Utf8Decode(_)
Utf8Decode(bytes) ==
    IF bytes = <<>> THEN <<>>
    ELSE IF bytes[1] = 104 THEN <<"h">> \o Utf8Decode(Tail(bytes))
    ELSE IF bytes[1] = 105 THEN <<"i">> \o Utf8Decode(Tail(bytes))
    ELSE IF Len(bytes) >= 3 /\ SubSeq(bytes, 1, 3) = <<239, 191, 189>>
         THEN <<Replacement>> \o Utf8Decode(SubSeq(bytes, 4, Len(bytes)))
    ELSE <<Replacement>> \o Utf8Decode(Tail(bytes))

(***************************************************************************)
(* AES-256-GCM as created by crypto.createCipher(algorithm, password):     *)
(* the cipher key AND the nonce are derived from the password alone        *)
(* (EVP_BytesToKey), so both are functions of the key.  GCM is a counter   *)
(* mode stream cipher with a 16 byte tag over the ciphertext.  The block   *)
(* cipher is idealised: the keystream is a fixed function of (key, nonce,  *)
(* position), combined bytewise by addition modulo 256 in place of XOR,    *)
(* and the tag is an injective function of (key, ciphertext) for           *)
(* ciphertexts of up to 12 bytes.                                          *)
(***************************************************************************)
DerivedKey(password) == IF password = <<>> THEN 0 ELSE password[1]

DerivedNonce(password) == IF password = <<>> THEN 0 ELSE (password[1] * 7 + 3) % 256

Keystream(password, i) == (DerivedKey(password) + DerivedNonce(password) + 31 * i) % 256

GcmEncrypt(password, plain) ==
    [i \in 1..Len(plain) |-> (plain[i] + Keystream(password, i)) % 256]

GcmDecrypt(password, ct) ==
    [i \in 1..Len(ct) |-> (ct[i] + 256 - Keystream(password, i)) % 256]

GcmTag(password, ct) ==
    [i \in 1..tagLength |->
        CASE i = 1 -> DerivedKey(password)
          [] i = 2 -> Len(ct) % 256
          [] i = 3 -> SumSeq(ct) % 256
          [] i = 4 -> SumSeq([j \in 1..Len(ct) |-> j * ct[j]]) % 256
          [] OTHER -> IF i - 4 <= Len(ct) THEN ct[i - 4] ELSE 0]

\* Tag lengths setAuthTag accepts for GCM when the decipher was created
\* without an authTagLength option.
IsValidGCMTagLength(n) == n = 4 \/ n = 8 \/ (n >= 12 /\ n <= 16)


(***************************************************************************)
(* crypto.randomBytes: every draw is a value no earlier draw produced (a   *)
(* 16 or 32 byte random value does not repeat); e counts the draws.        *)
(***************************************************************************)
randomBytes(n, e) == [i \in 1..n |-> (171 + 17 * e) % 256]

\* EncryptionService.generateKey.  In the state a key is held as the number
\* of the draw that produced it; generateKey(k) is its hex text.
generateKey(e) == ToHex(randomBytes(keyLength, e))

(***************************************************************************)
(* EncryptionService.encrypt(text, key).  The iv is drawn and returned;    *)
(* the cipher is created from the key alone.  e is the randomBytes draw;   *)
(* the iv, which nothing reads back, is held as the number of its draw     *)
(* (IvText gives its hex text).                                            *)
(***************************************************************************)
IvText(e) == ToHex(randomBytes(ivLength, e))

encrypt(text, key, e) ==
    LET password == FromHex(generateKey(key))
        ct       == GcmEncrypt(password, Utf8Encode(text))
    IN  [encrypted |-> ToHex(ct),
         iv        |-> e,
         tag       |-> ToHex(GcmTag(password, ct))]

(***************************************************************************)
(* EncryptionService.decrypt(encryptedData, key).  encryptedData is the    *)
(* parsed object: a record that may lack the field tag.  The result is     *)
(* [ok |-> TRUE, text |-> plaintext], or [ok |-> FALSE, ...] when          *)
(* setAuthTag or final() throws.                                           *)
(***************************************************************************)
DecryptionFailure == [ok |-> FALSE, text |-> <<>>]

TagIsTruthy(encryptedData) ==
    /\ "tag" \in DOMAIN encryptedData
    /\ encryptedData.tag # <<>>

decrypt(encryptedData, key) ==
    LET password == FromHex(generateKey(key))
        tagBuf   == IF TagIsTruthy(encryptedData) THEN FromHex(encryptedData.tag) ELSE <<>>
        ct       == FromHex(encryptedData.encrypted)
        expected == GcmTag(password, ct)
    IN  IF ~TagIsTruthy(encryptedData)
        THEN DecryptionFailure                       \* final(): no tag was set
        ELSE IF ~IsValidGCMTagLength(Len(tagBuf))
        THEN DecryptionFailure                       \* setAuthTag throws
        ELSE IF tagBuf # Take(expected, Len(tagBuf))
        THEN DecryptionFailure                       \* final(): tag mismatch
        ELSE [ok |-> TRUE, text |-> Utf8Decode(GcmDecrypt(password, ct))]

(***************************************************************************)
(* JSON.stringify of the encrypt result and JSON.parse of the persisted    *)
(* text.  A JSON text is kept as its syntax tree: an object, a text that   *)
(* does not parse, or the empty string (falsy, as an absent field is).     *)
(***************************************************************************)
JsonStringify(obj) == [text |-> "object", obj |-> obj]
NoEncryptedContent == [text |-> "empty", obj |-> [encrypted |-> <<>>]]
MalformedJson == [text |-> "malformed", obj |-> [encrypted |-> <<>>]]

IsTruthyString(json) == json.text # "empty"
JsonParses(json) == json.text = "object"
JsonParse(json) == json.obj


(***************************************************************************)
(* Bounds of the model.                                                    *)
(***************************************************************************)
MaxOps == 2
MaxClock == 2

Users == {"u1", "u2"}
SocketIds == {"s1", "s2"}
\* The authenticated principal bound to each connection (io.use middleware).
SocketUser(s) == IF s = "s1" THEN "u1" ELSE "u2"
RoomIds == {1, 2}
Contents == {<<>>, <<"h", "i">>}
MessageTypes == {"text"}

VARIABLES
    encryptionKey,  \* MessageService.encryptionKey (static)
    entropy,        \* number of randomBytes draws made so far
    now,            \* the clock read by new Date()
    chatrooms,      \* collection 'chatrooms': sequence of rooms, _id = index
    messages,       \* collection 'messages': set of documents
    connected,      \* sockets currently connected
    closed,         \* sockets that have disconnected
    removals,       \* socket -> number of times its connection was closed
    joined,         \* socket -> rooms of the socket.io adapter it is in
    inbox,          \* socket -> events delivered to it, in delivery order
    calls,          \* handler invocations suspended at an await
    hids,           \* number of handler invocations started
    budget,         \* number of handler invocations the clients make in a run
    results,        \* finished invocations of send/edit/delete
    deleted,        \* documents removed from 'messages', with the remover
    lastList,       \* the last getMessages call and what it returned
    tampered,       \* ids of documents altered from outside the program
    cin, cout,      \* input and output of the last direct cipher call
    api_health,     \* table api_health: endpoint -> row
    failedChecks,   \* endpoint -> failed checks since its last successful one
    auth,           \* AuthProvider state: user, token, loading
    localStorage,   \* the browser's localStorage item 'authToken'
    requests,       \* auth requests of the client that await their response
    typingUsers,    \* socket -> ChatPage state typingUsers of its client
    handled         \* socket -> number of delivered events its client handled

chatVars == <<encryptionKey, entropy, now, chatrooms, messages, connected, closed,
              joined, inbox, calls, hids, budget, results, deleted, lastList, tampered,
              cin, cout, removals>>

monitorVars == <<api_health, failedChecks>>
authVars == <<auth, localStorage, requests>>
pageVars == <<typingUsers, handled>>

vars == <<chatVars, monitorVars, authVars, pageVars>>

storeVars == <<chatrooms, messages, deleted, tampered>>
socketVars == <<connected, closed, joined, inbox>>
cipherVars == <<cin, cout>>

NoDoc == [_id |-> 0, chatId |-> 0, senderId |-> "none", content |-> <<>>,
          encryptedContent |-> NoEncryptedContent, messageType |-> "text",
          timestamp |-> 0, edited |-> FALSE, editedAt |-> 0, writers |-> {}]

NoList == [chatId |-> 0, limit |-> 0, skip |-> 0, found |-> <<>>, out |-> <<>>]

NoCipherCall == [op |-> "none", text |-> <<>>, key |-> 0, dkey |-> 0,
                 orig |-> [encrypted |-> <<>>], enc |-> [encrypted |-> <<>>]]

\* The endpoints performHealthCheck probes, and a row of api_health (the
\* table is created empty).
Endpoints == {"/api/health", "/api/auth/verify", "/api/users/profile", "/api/messages/rooms"}

NoRow == [present |-> FALSE, status |-> FALSE, consecutive_failures |-> 0]

\* AuthProvider as mounted in a browser whose localStorage holds stored:
\* useState(null), useState(localStorage.getItem('authToken')),
\* useState(true), and the effect on [token] has run after the first
\* render: verifyToken() is on its way, or loading is false.
NoToken == "null"
NoUser == "null"

\* A request of the client that awaits its response; a verify request
\* carries the token localStorage held when it was sent.
Request(reqs, op, token, user) ==
    [id |-> CHOOSE n \in 1..(Cardinality(reqs) + 1) : \A r \in reqs : r.id # n,
     op |-> op, token |-> token, user |-> user]

Mounted(stored) ==
    /\ localStorage = [authToken |-> stored]
    /\ auth = [user |-> NoUser, token |-> stored, loading |-> stored # NoToken]
    /\ requests = IF stored # NoToken
                  THEN {Request({}, "verify", stored, NoUser)}
                  ELSE {}

\* The servers after construction, for a run of ops handler invocations,
\* and the chat pages of the clients.
StartServer(ops) ==
    /\ budget = ops
    /\ encryptionKey = 0
    /\ entropy = 1
    /\ now = 1
    /\ chatrooms = <<>>
    /\ messages = {}
    /\ connected = {}
    /\ closed = {}
    /\ removals = [s \in SocketIds |-> 0]
    /\ joined = [s \in SocketIds |-> {}]
    /\ inbox = [s \in SocketIds |-> <<>>]
    /\ calls = {}
    /\ hids = 0
    /\ results = {}
    /\ deleted = {}
    /\ lastList = NoList
    /\ tampered = {}
    /\ cin = NoCipherCall
    /\ cout = DecryptionFailure
    /\ api_health = [e \in Endpoints |-> NoRow]
    /\ failedChecks = [e \in Endpoints |-> 0]
    /\ typingUsers = [s \in SocketIds |-> <<>>]
    /\ handled = [s \in SocketIds |-> 0]

\* The state after construction, with a client whose browser holds no token.
Start(ops) == StartServer(ops) /\ Mounted(NoToken)

Init == Start(MaxOps)

\* Time passes.
Tick ==
    /\ now < MaxClock
    /\ now' = now + 1
    /\ UNCHANGED <<monitorVars, authVars, pageVars, encryptionKey, budget, removals, entropy, storeVars, socketVars, calls, hids,
                   results, lastList, cipherVars>>

(***************************************************************************)
(* MessageService.createChatRoom, called by POST /rooms with               *)
(* participants = [user.id] and createdBy = user.id.                       *)
(***************************************************************************)
RoomKey == encryptionKey

\* A room document written before its key is set.
createChatRoomNoKey(user) ==
    [participants |-> {user}, createdBy |-> user, createdAt |-> now,
     encryptionKey |-> -1]

createChatRoom(user) ==
    [participants |-> {user}, createdBy |-> user, createdAt |-> now,
     encryptionKey |-> RoomKey]

CreateChatRoom(user) ==
    /\ Len(chatrooms) < Cardinality(RoomIds)
    /\ chatrooms' = Append(chatrooms, createChatRoom(user))
    /\ UNCHANGED <<monitorVars, authVars, pageVars, encryptionKey, budget, removals, entropy, now, messages, deleted, tampered, socketVars,
                   calls, hids, results, lastList, cipherVars>>

\* MessageService.getChatRoom: the room, or null.
RoomExists(roomId) == roomId \in 1..Len(chatrooms)
HasEncryptionKey(roomId) == RoomExists(roomId) /\ chatrooms[roomId].encryptionKey \in Nat

(***************************************************************************)
(* Connections.  io.on('connection'), 'join-rooms' and 'disconnect'.       *)
(***************************************************************************)
Event(type, room, msgId, content, user, hid, at) ==
    [type |-> type, room |-> room, msgId |-> msgId, content |-> content,
     user |-> user, hid |-> hid, at |-> at, member |-> FALSE]

\* Delivery of ev to the sockets of to; member records whether the
\* receiving socket was in the room ev belongs to.
Deliver(inb, to, ev) ==
    [s \in SocketIds |->
        IF s \in to
        THEN Append(inb[s], [ev EXCEPT !.member = (ev.room \in joined[s])])
        ELSE inb[s]]

\* A fan-out that ignores the room: every connected socket.
IoToAll(room) == connected

\* io.to(room): the connected sockets that joined room.
IoTo(room) == {s \in connected : room \in joined[s]}
\* A room emit that does not leave out the sender.
SocketToAll(sock, room) == {s \in connected : room \in joined[s]}

\* socket.to(room): the same, without the socket itself.
SocketTo(sock, room) == IoTo(room) \ {sock}
\* An emit on the server instead of the socket: every connected socket.
SocketEmitAll(sock) == connected

\* An emit that reaches the socket whether it is connected or not.
SocketEmitClosed(sock) == {sock}

\* socket.emit: the socket itself.
SocketEmit(sock) == {sock} \cap connected
\* socket.emit followed by socket.broadcast.emit: every connected socket.
SocketBroadcast(sock) == connected \ {sock}

Connect(s) ==
    /\ s \notin connected
    /\ s \notin closed
    /\ connected' = connected \cup {s}
    /\ UNCHANGED <<monitorVars, authVars, pageVars, encryptionKey, budget, removals, entropy, now, storeVars, closed, joined, inbox,
                   calls, hids, results, lastList, cipherVars>>

\* A join that admits a socket only to the rooms its user participates in.
JoinRoomsChecked(s, roomIds) ==
    /\ s \in connected
    /\ roomIds # {}
    /\ joined' = [joined EXCEPT ![s] =
                     @ \cup {r \in roomIds : /\ r \in 1..Len(chatrooms)
                                             /\ SocketUser(s) \in chatrooms[r].participants}]
    /\ UNCHANGED <<monitorVars, authVars, pageVars, encryptionKey, budget, removals, entropy, now, storeVars, connected, closed,
                   inbox, calls, hids, results, lastList, cipherVars>>

JoinRooms(s, roomIds) ==
    /\ s \in connected
    /\ roomIds # {}
    /\ ~(roomIds \subseteq joined[s])
    /\ joined' = [joined EXCEPT ![s] = @ \cup roomIds]
    /\ UNCHANGED <<monitorVars, authVars, pageVars, encryptionKey, budget, removals, entropy, now, storeVars, connected, closed, inbox,
                   calls, hids, results, lastList, cipherVars>>

\* A close that does not look at the connected flag.
FiresAlways(s) == TRUE

\* Socket._onclose returns at once when the socket is no longer connected:
\* the 'disconnect' handlers of a socket run once.
FiresDisconnect(s) == s \in connected

\* A disconnect handler that also clears the typing signal of its user.
DisconnectHandlerStopsTyping(s) ==
    /\ connected' = connected \ {s}
    /\ closed' = closed \cup {s}
    /\ joined' = [joined EXCEPT ![s] = {}]
    /\ inbox' = Deliver(Deliver(inbox, connected \ {s},
                                Event("user-stopped-typing", 0, 0, <<>>, SocketUser(s), 0, 0)),
                        connected \ {s},
                        Event("user-offline", 0, 0, <<>>, SocketUser(s), 0, 0))

\* The socket leaves every room; the handler then tells all other sockets.
DisconnectHandler(s) ==
    /\ connected' = connected \ {s}
    /\ closed' = closed \cup {s}
    /\ joined' = [joined EXCEPT ![s] = {}]
    /\ inbox' = Deliver(inbox, connected \ {s},
                        Event("user-offline", 0, 0, <<>>, SocketUser(s), 0, 0))

Disconnect(s) ==
    /\ s \in connected
    /\ DisconnectHandler(s)
    /\ removals' = [removals EXCEPT ![s] = @ + 1]
    /\ UNCHANGED <<monitorVars, authVars, pageVars, encryptionKey, budget, entropy, now, storeVars, calls, hids, results,
                   lastList, cipherVars>>

\* The connection of a socket that was removed is closed once more (the
\* client's disconnect and the transport's close both arrive).
MaxRemovals == 2

CloseAgain(s) ==
    /\ s \in closed
    /\ removals[s] < MaxRemovals
    /\ removals' = [removals EXCEPT ![s] = @ + 1]
    /\ IF FiresDisconnect(s) THEN DisconnectHandler(s) ELSE UNCHANGED socketVars
    /\ UNCHANGED <<monitorVars, authVars, pageVars, encryptionKey, budget, entropy, now, storeVars, calls, hids, results,
                   lastList, cipherVars>>


(***************************************************************************)
(* Handler invocations.  A call is the state of one invocation suspended   *)
(* at an await; pc names the database operation it awaits or the outcome   *)
(* it will resume with.  via is "socket" (socket-handlers.ts) or "rest"    *)
(* (message-routes.ts).  Document ids are compared as values.              *)
(***************************************************************************)
Caller(via, sock, user) ==
    \/ via = "socket" /\ sock \in connected /\ user = SocketUser(sock)
    \/ via = "rest" /\ sock = "none" /\ user \in Users

Call(hid, op, via, sock, user, chatId, msgId, content, pc, doc) ==
    [hid |-> hid, op |-> op, via |-> via, sock |-> sock, user |-> user,
     chatId |-> chatId, msgId |-> msgId, content |-> content, pc |-> pc,
     doc |-> doc, room |-> chatId]

\* The record of a finished invocation: ok is the service's return value
\* (FALSE also when it threw), status the HTTP status of a REST call,
\* owner the sender of the addressed message when the call looked it up
\* ("none": no such message), audience the sockets in the room when a
\* new-message was emitted, content the content the call was given.
Result(c, ok, status, owner, audience) ==
    [hid |-> c.hid, op |-> c.op, via |-> c.via, sock |-> c.sock, user |-> c.user,
     msgId |-> c.msgId, chatId |-> c.chatId, ok |-> ok, status |-> status,
     owner |-> owner, audience |-> audience, content |-> c.content]

ErrorEvent(c) == Event("error", 0, c.msgId, <<>>, c.user, c.hid, 0)

\* body('content').isLength({ min: 1, max: 5000 })
ValidContent(content) == Len(content) >= 1 /\ Len(content) <= 5000
\* body('messageType').isIn(['text', 'file', 'image'])
ValidMessageType(t) == t \in {"text", "file", "image"}

OwnerOf(msgId) ==
    IF \E m \in messages : m._id = msgId
    THEN (CHOOSE m \in messages : m._id = msgId).senderId
    ELSE "none"

(***************************************************************************)
(* send-message / POST /rooms/:roomId/messages -> MessageService.sendMessage *)
(***************************************************************************)
\* The document sendMessage inserts: {...messageData, encryptedContent, timestamp}.
NewMessage(hid, chatId, user, content, messageType, encrypted) ==
    [_id |-> hid, chatId |-> chatId, senderId |-> user, content |-> content,
     encryptedContent |-> JsonStringify(encrypted), messageType |-> messageType,
     timestamp |-> now, edited |-> FALSE, editedAt |-> 0, writers |-> {}]

\* The handler starts; getChatRoom answers; the message is encrypted and
\* stamped, and insertOne is issued.
SendMessage(via, sock, user, chatId, content, messageType) ==
    /\ hids < budget
    /\ Caller(via, sock, user)
    /\ hids' = hids + 1
    /\ LET c == Call(hids + 1, "send", via, sock, user, chatId, 0, content, "insertOne", NoDoc)
       IN  IF via = "rest" /\ ~(ValidContent(content) /\ ValidMessageType(messageType))
           THEN /\ results' = results \cup {Result(c, FALSE, 400, "none", {})}
                /\ UNCHANGED <<entropy, calls, inbox>>
           ELSE IF ~HasEncryptionKey(chatId)
           THEN /\ results' = results \cup {Result(c, FALSE, IF via = "rest" THEN 500 ELSE 0, "none", {})}
                /\ inbox' = IF via = "socket"
                            THEN Deliver(inbox, SocketEmit(sock), ErrorEvent(c))
                            ELSE inbox
                /\ UNCHANGED <<entropy, calls>>
           ELSE /\ entropy' = entropy + 1
                /\ calls' = calls \cup
                     {[c EXCEPT !.doc = NewMessage(c.hid, chatId, user, content, messageType,
                                           encrypt(content, chatrooms[chatId].encryptionKey, entropy))]}
                /\ UNCHANGED <<results, inbox>>
    /\ UNCHANGED <<monitorVars, authVars, pageVars, encryptionKey, budget, removals, now, storeVars, connected, closed, joined,
                   lastList, cipherVars>>

\* The database executes insertOne, or fails to.
InsertOne(c) ==
    /\ c \in calls
    /\ c.op = "send" /\ c.pc = "insertOne"
    /\ \/ /\ messages' = messages \cup {c.doc}
          /\ calls' = (calls \ {c}) \cup {[c EXCEPT !.pc = "inserted", !.msgId = c.doc._id]}
       \/ /\ calls' = (calls \ {c}) \cup {[c EXCEPT !.pc = "failed"]}
          /\ UNCHANGED messages
    /\ UNCHANGED <<monitorVars, authVars, pageVars, encryptionKey, budget, removals, entropy, now, chatrooms, deleted, tampered, socketVars,
                   hids, results, lastList, cipherVars>>

\* An emit that does not wait for the outcome of the insert.
BroadcastsAlways(pc) == TRUE

\* Whether the handler emits new-message when it resumes at pc.
BroadcastsNewMessage(pc) == pc = "inserted"

\* The handler resumes: io.to(chatId).emit('new-message', message), or the
\* catch block's socket.emit('error').
SendMessageReturn(c) ==
    /\ c \in calls
    /\ c.op = "send" /\ c.pc \in {"inserted", "failed"}
    /\ calls' = calls \ {c}
    /\ IF c.via = "rest"
       THEN /\ results' = results \cup
                 {Result(c, c.pc = "inserted", IF c.pc = "inserted" THEN 201 ELSE 500, "none", {})}
            /\ UNCHANGED inbox
       ELSE IF BroadcastsNewMessage(c.pc)
       THEN /\ inbox' = Deliver(inbox, IoTo(c.chatId),
                                Event("new-message", c.chatId, c.doc._id, c.doc.content,
                                      c.user, c.hid, c.doc.timestamp))
            /\ results' = results \cup
                 {Result(c, TRUE, 0, "none", {s \in connected : c.chatId \in joined[s]})}
       ELSE /\ inbox' = Deliver(inbox, SocketEmit(c.sock), ErrorEvent(c))
            /\ results' = results \cup {Result(c, FALSE, 0, "none", {})}
    /\ UNCHANGED <<monitorVars, authVars, pageVars, encryptionKey, budget, removals, entropy, now, storeVars, connected, closed, joined,
                   hids, lastList, cipherVars>>


(***************************************************************************)
(* edit-message / PUT /messages/:messageId -> MessageService.editMessage   *)
(***************************************************************************)
\* A filter on the id alone.
MatchesIdOnly(m, messageId, userId) == m._id = messageId

\* The filter { _id: messageId, senderId: userId } of findOne, updateOne
\* and deleteOne.
MatchesFilter(m, messageId, userId) == m._id = messageId /\ m.senderId = userId

\* A $set that keeps the edit timestamp of a message that was edited before.
SetEditedKeepStamp(m, c) ==
    [m EXCEPT !.content = c.doc.content,
              !.encryptedContent = c.doc.encryptedContent,
              !.edited = TRUE,
              !.editedAt = IF m.edited THEN m.editedAt ELSE c.doc.editedAt,
              !.writers = @ \cup {c.hid}]

\* A $set that leaves the ciphertext as it was.
SetEditedContentOnly(m, c) ==
    [m EXCEPT !.content = c.doc.content,
              !.edited = TRUE,
              !.editedAt = c.doc.editedAt,
              !.writers = @ \cup {c.hid}]

\* $set: { content, encryptedContent, edited: true, editedAt: new Date() }
SetEdited(m, c) ==
    [m EXCEPT !.content = c.doc.content,
              !.encryptedContent = c.doc.encryptedContent,
              !.edited = TRUE,
              !.editedAt = c.doc.editedAt,
              !.writers = @ \cup {c.hid}]

\* What a handler does with a service result that is false or a throw:
\* socket.emit('error', ...) to the requester, or a 404 / 500 response.
Refuse(c, status, owner) ==
    /\ results' = results \cup {Result(c, FALSE, IF c.via = "rest" THEN status ELSE 0, owner, {})}
    /\ inbox' = IF c.via = "socket"
                THEN Deliver(inbox, SocketEmit(c.sock), ErrorEvent(c))
                ELSE inbox

\* The handler starts and findOne({ _id, senderId }) answers.
EditMessage(via, sock, user, messageId, content) ==
    /\ hids < budget
    /\ Caller(via, sock, user)
    /\ hids' = hids + 1
    /\ LET c == Call(hids + 1, "edit", via, sock, user, 0, messageId, content, "getChatRoom", NoDoc)
       IN  IF via = "rest" /\ ~ValidContent(content)
           THEN /\ results' = results \cup {Result(c, FALSE, 400, "none", {})}
                /\ UNCHANGED <<calls, inbox>>
           ELSE IF ~\E m \in messages : MatchesFilter(m, messageId, user)
           THEN /\ Refuse(c, 404, OwnerOf(messageId))
                /\ UNCHANGED calls
           ELSE LET m == CHOOSE m \in messages : MatchesFilter(m, messageId, user)
                IN  /\ calls' = calls \cup {[c EXCEPT !.chatId = m.chatId, !.room = m.chatId]}
                    /\ UNCHANGED <<results, inbox>>
    /\ UNCHANGED <<monitorVars, authVars, pageVars, encryptionKey, budget, removals, entropy, now, storeVars, connected, closed, joined,
                   lastList, cipherVars>>

\* getChatRoom(message.chatId) answers; the new content is encrypted and
\* updateOne is issued.
EditGetChatRoom(c) ==
    /\ c \in calls
    /\ c.op = "edit" /\ c.pc = "getChatRoom"
    /\ IF ~HasEncryptionKey(c.chatId)
       THEN /\ calls' = calls \ {c}
            /\ Refuse(c, 404, c.user)
            /\ UNCHANGED entropy
       ELSE /\ entropy' = entropy + 1
            /\ calls' = (calls \ {c}) \cup
                 {[c EXCEPT !.pc = "updateOne",
                            !.doc = [NoDoc EXCEPT
                                !.content = c.content,
                                !.encryptedContent = JsonStringify(
                                    encrypt(c.content, chatrooms[c.chatId].encryptionKey, entropy)),
                                !.edited = TRUE,
                                !.editedAt = now]]}
            /\ UNCHANGED <<results, inbox>>
    /\ UNCHANGED <<monitorVars, authVars, pageVars, encryptionKey, budget, removals, now, storeVars, connected, closed, joined, hids,
                   lastList, cipherVars>>

\* An update with upsert: a document is inserted when the filter matches none.
EditUpsertOne(c) ==
    /\ c \in calls
    /\ c.op = "edit" /\ c.pc = "updateOne"
    /\ \/ LET matched == {m \in messages : MatchesFilter(m, c.msgId, c.user)}
              base    == IF matched # {} THEN matched
                         ELSE {[NoDoc EXCEPT !._id = c.msgId, !.senderId = c.user,
                                             !.chatId = c.chatId]}
          IN  /\ messages' = (messages \ matched) \cup {SetEdited(m, c) : m \in base}
              /\ calls' = (calls \ {c}) \cup {[c EXCEPT !.pc = "updated"]}
       \/ /\ calls' = (calls \ {c}) \cup {[c EXCEPT !.pc = "failed"]}
          /\ UNCHANGED messages
    /\ UNCHANGED <<monitorVars, authVars, pageVars, encryptionKey, budget, removals, entropy, now, chatrooms, deleted, tampered, socketVars,
                   hids, results, lastList, cipherVars>>

\* The database executes updateOne({ _id, senderId }, { $set }), or fails to.
\* modifiedCount counts the documents the update changed.
EditUpdateOne(c) ==
    /\ c \in calls
    /\ c.op = "edit" /\ c.pc = "updateOne"
    /\ \/ LET matched  == {m \in messages : MatchesFilter(m, c.msgId, c.user)}
              modified == {m \in matched : [SetEdited(m, c) EXCEPT !.writers = m.writers] # m}
          IN  /\ messages' = (messages \ matched) \cup {SetEdited(m, c) : m \in matched}
              /\ calls' = (calls \ {c}) \cup
                   {[c EXCEPT !.pc = IF modified # {} THEN "updated" ELSE "unmodified"]}
       \/ /\ calls' = (calls \ {c}) \cup {[c EXCEPT !.pc = "failed"]}
          /\ UNCHANGED messages
    /\ UNCHANGED <<monitorVars, authVars, pageVars, encryptionKey, budget, removals, entropy, now, chatrooms, deleted, tampered, socketVars,
                   hids, results, lastList, cipherVars>>

\* The sockets a message-edited / message-deleted event goes to:
\* socket.emit(...) and socket.broadcast.emit(...).
EditDeleteAudience(c) == SocketEmit(c.sock) \cup SocketBroadcast(c.sock)

\* A handler that takes every outcome of the edit for a success.
EditSucceededAlways(pc) == TRUE

\* if (success): editMessage returned result.modifiedCount > 0.
EditSucceeded(pc) == pc = "updated"

\* The handler resumes with the service result.
EditMessageReturn(c) ==
    /\ c \in calls
    /\ c.op = "edit" /\ c.pc \in {"updated", "unmodified", "failed"}
    /\ calls' = calls \ {c}
    /\ IF EditSucceeded(c.pc)
       THEN /\ results' = results \cup
                 {Result(c, TRUE, IF c.via = "rest" THEN 200 ELSE 0, c.user, {})}
            /\ inbox' = IF c.via = "socket"
                        THEN Deliver(inbox, EditDeleteAudience(c),
                                     Event("message-edited", c.room, c.msgId, c.content,
                                           c.user, c.hid, now))
                        ELSE inbox
       ELSE Refuse(c, IF c.pc = "failed" THEN 500 ELSE 404, c.user)
    /\ UNCHANGED <<monitorVars, authVars, pageVars, encryptionKey, budget, removals, entropy, now, storeVars, connected, closed, joined,
                   hids, lastList, cipherVars>>

(***************************************************************************)
(* delete-message / DELETE /messages/:messageId -> MessageService.deleteMessage *)
(***************************************************************************)
\* A result that does not look at deletedCount.
DeletedAlways(matched) == "deleted"

\* return result.deletedCount > 0
DeleteOutcome(matched) == IF matched # {} THEN "deleted" ELSE "notdeleted"

\* The handler starts and the database executes deleteOne({ _id, senderId }),
\* or fails to.
DeleteMessage(via, sock, user, messageId) ==
    /\ hids < budget
    /\ Caller(via, sock, user)
    /\ hids' = hids + 1
    /\ LET c       == Call(hids + 1, "delete", via, sock, user, 0, messageId, <<>>, "deleteOne", NoDoc)
           matched == {m \in messages : MatchesFilter(m, messageId, user)}
           owner   == OwnerOf(messageId)
       IN  \/ /\ messages' = messages \ matched
              /\ deleted' = deleted \cup {[doc |-> m, by |-> c.hid] : m \in matched}
              /\ calls' = calls \cup
                   {[c EXCEPT !.pc = DeleteOutcome(matched),
                              !.doc = [NoDoc EXCEPT !.senderId = owner],
                              !.room = IF matched # {}
                                       THEN (CHOOSE m \in matched : TRUE).chatId ELSE 0]}
           \/ /\ calls' = calls \cup {[c EXCEPT !.pc = "failed", !.doc = [NoDoc EXCEPT !.senderId = owner]]}
              /\ UNCHANGED <<messages, deleted>>
    /\ UNCHANGED <<monitorVars, authVars, pageVars, encryptionKey, budget, removals, entropy, now, chatrooms, tampered, socketVars, results,
                   lastList, cipherVars>>

\* The handler resumes with the service result.
DeleteMessageReturn(c) ==
    /\ c \in calls
    /\ c.op = "delete" /\ c.pc \in {"deleted", "notdeleted", "failed"}
    /\ calls' = calls \ {c}
    /\ IF c.pc = "deleted"
       THEN /\ results' = results \cup
                 {Result(c, TRUE, IF c.via = "rest" THEN 200 ELSE 0, c.doc.senderId, {})}
            /\ inbox' = IF c.via = "socket"
                        THEN Deliver(inbox, EditDeleteAudience(c),
                                     Event("message-deleted", c.room, c.msgId, <<>>,
                                           c.user, c.hid, 0))
                        ELSE inbox
       ELSE Refuse(c, IF c.pc = "failed" THEN 500 ELSE 404, c.doc.senderId)
    /\ UNCHANGED <<monitorVars, authVars, pageVars, encryptionKey, budget, removals, entropy, now, storeVars, connected, closed, joined,
                   hids, lastList, cipherVars>>

(***************************************************************************)
(* typing-start / typing-stop                                              *)
(***************************************************************************)
TypingStart(sock, chatId) ==
    /\ sock \in connected
    /\ hids < budget
    /\ hids' = hids + 1
    /\ inbox' = Deliver(inbox, SocketTo(sock, chatId),
                        Event("user-typing", chatId, 0, <<>>, SocketUser(sock), hids + 1, 0))
    /\ UNCHANGED <<monitorVars, authVars, pageVars, encryptionKey, budget, removals, entropy, now, storeVars, connected, closed, joined,
                   calls, results, lastList, cipherVars>>

TypingStop(sock, chatId) ==
    /\ sock \in connected
    /\ hids < budget
    /\ hids' = hids + 1
    /\ inbox' = Deliver(inbox, SocketTo(sock, chatId),
                        Event("user-stopped-typing", chatId, 0, <<>>, SocketUser(sock), hids + 1, 0))
    /\ UNCHANGED <<monitorVars, authVars, pageVars, encryptionKey, budget, removals, entropy, now, storeVars, connected, closed, joined,
                   calls, results, lastList, cipherVars>>


(***************************************************************************)
(* GET /rooms/:roomId/messages -> MessageService.getMessages               *)
(***************************************************************************)
DecryptionFailedContent == <<"[Encrypted message - decryption failed]">>

\* find({ chatId }).sort({ timestamp: -1 }): the documents of the room,
\* newest first; documents with equal timestamps come in any order.
SortedNewestFirst(chatId) ==
    LET docs == {m \in messages : m.chatId = chatId}
        n    == Cardinality(docs)
    IN  {q \in [1..n -> docs] :
            /\ \A i, j \in 1..n : i # j => q[i] # q[j]
            /\ \A i, j \in 1..n : i < j => q[i].timestamp >= q[j].timestamp}

\* A cursor that limits first and skips within what is left.
PageLimitFirst(q, limit, skip) ==
    IF skip >= Len(Take(q, limit)) THEN <<>>
    ELSE SubSeq(Take(q, limit), skip + 1, Len(Take(q, limit)))

\* .limit(limit).skip(skip): the cursor skips, then limits.
Page(q, limit, skip) ==
    IF skip >= Len(q) THEN <<>>
    ELSE SubSeq(q, skip + 1, IF skip + limit < Len(q) THEN skip + limit ELSE Len(q))

\* A catch block that leaves the message as it was read.
DecryptMessageKeep(m, key) ==
    IF ~IsTruthyString(m.encryptedContent) THEN m
    ELSE IF ~JsonParses(m.encryptedContent) THEN m
    ELSE LET r == decrypt(JsonParse(m.encryptedContent), key)
         IN  IF r.ok THEN [m EXCEPT !.content = r.text] ELSE m

\* The body of messages.forEach: content is replaced by the decrypted text,
\* or by the marker when JSON.parse or decrypt throws.
DecryptMessage(m, key) ==
    IF ~IsTruthyString(m.encryptedContent) THEN m
    ELSE IF ~JsonParses(m.encryptedContent)
    THEN [m EXCEPT !.content = DecryptionFailedContent]
    ELSE LET r == decrypt(JsonParse(m.encryptedContent), key)
         IN  IF r.ok THEN [m EXCEPT !.content = r.text]
             ELSE [m EXCEPT !.content = DecryptionFailedContent]

getMessages(q, chatId, limit, skip) ==
    LET page == Page(q, limit, skip)
    IN  Reverse(IF HasEncryptionKey(chatId)
                THEN [i \in 1..Len(page) |-> DecryptMessage(page[i], chatrooms[chatId].encryptionKey)]
                ELSE page)

\* lastList.found is the page as the cursor gave it, in the order of the
\* response; lastList.out keeps, of every returned message, the fields that
\* getMessages computes or orders by.
Returned(msgs) ==
    [i \in 1..Len(msgs) |->
        [_id |-> msgs[i]._id, content |-> msgs[i].content, timestamp |-> msgs[i].timestamp]]

Limits == {1, 50}
Skips == {0, 1}

\* The two reads (find, getChatRoom) are taken together: a room document is
\* written once, by createChatRoom.
GetMessages(chatId, limit, skip) ==
    /\ \E q \in SortedNewestFirst(chatId) :
          lastList' = [chatId |-> chatId, limit |-> limit, skip |-> skip,
                       found |-> Reverse(Page(q, limit, skip)),
                       out |-> Returned(getMessages(q, chatId, limit, skip))]
    /\ UNCHANGED <<monitorVars, authVars, pageVars, encryptionKey, budget, removals, entropy, now, storeVars, socketVars, calls, hids,
                   results, cipherVars>>

(***************************************************************************)
(* Alteration of persisted ciphertext from outside the program (the case   *)
(* decrypt's tag check is there for): one character of the hex text of     *)
(* the ciphertext or of the tag is replaced, the text is cut short, the    *)
(* tag is removed, the JSON text is damaged or emptied.                    *)
(***************************************************************************)
Subst(str, p, ch) == [i \in 1..Len(str) |-> IF i = p THEN ch ELSE str[i]]

\* Characters a stored hex digit may be changed into: another digit, the
\* same digit in upper case, and a character that is no hex digit.
TamperChars(c) ==
    LET v == HexVal(c)
    IN  ({"p"} \cup (IF v < 0 THEN {} ELSE {HexDigits[((v + 1) % 16) + 1], UpperHexDigits[v + 1]}))
        \ {c}

TruncatedLengths == {0, 8, 10, 24, 30}

TamperedStrings(str, positions) ==
    UNION {{Subst(str, p, ch) : ch \in TamperChars(str[p])} :
              p \in positions \cap (1..Len(str))}
    \cup {Take(str, n) : n \in {k \in TruncatedLengths : k < Len(str)}}

TamperedObjects(obj, positions) ==
    {[obj EXCEPT !.encrypted = t] : t \in TamperedStrings(obj.encrypted, positions)}
    \cup {[obj EXCEPT !.tag = t] : t \in TamperedStrings(obj.tag, positions)}
    \cup {[encrypted |-> obj.encrypted, iv |-> obj.iv]}

StorePositions == {1}
MaxTampered == 1

Tamper(m) ==
    /\ m \in messages
    /\ Cardinality(tampered) < MaxTampered
    /\ m._id \notin tampered
    /\ JsonParses(m.encryptedContent)
    /\ tampered' = tampered \cup {m._id}
    /\ \E t \in {JsonStringify(o) : o \in TamperedObjects(JsonParse(m.encryptedContent), StorePositions)}
              \cup {MalformedJson, NoEncryptedContent} :
          messages' = (messages \ {m}) \cup {[m EXCEPT !.encryptedContent = t]}
    /\ UNCHANGED <<monitorVars, authVars, pageVars, encryptionKey, budget, removals, entropy, now, chatrooms, deleted, socketVars, calls,
                   hids, results, lastList, cipherVars>>


(***************************************************************************)
(* The cipher called directly: encrypt a text, alter the result or not,    *)
(* decrypt under some key.                                                 *)
(***************************************************************************)
Plaintexts == Contents \cup {<<"i", "h", "i">>, <<LoneSurrogate>>, <<"h", Replacement>>}
CipherKeys == {0, 1}
MaxTamperPosition == 32

CipherEncrypt(text, key, e) ==
    /\ cin.op = "none"
    /\ cin' = [op |-> "encrypted", text |-> text, key |-> key, dkey |-> 0,
               orig |-> encrypt(text, key, e), enc |-> encrypt(text, key, e)]
    /\ UNCHANGED <<monitorVars, authVars, pageVars, encryptionKey, budget, removals, entropy, now, storeVars, socketVars, calls, hids,
                   results, lastList, cout>>

CipherTamper ==
    /\ cin.op = "encrypted"
    /\ cin.enc = cin.orig
    /\ \E o \in TamperedObjects(cin.orig, 1..MaxTamperPosition) : cin' = [cin EXCEPT !.enc = o]
    /\ UNCHANGED <<monitorVars, authVars, pageVars, encryptionKey, budget, removals, entropy, now, storeVars, socketVars, calls, hids,
                   results, lastList, cout>>

CipherDecrypt(key) ==
    /\ cin.op = "encrypted"
    /\ cin' = [cin EXCEPT !.op = "decrypted", !.dkey = key]
    /\ cout' = decrypt(cin.enc, key)
    /\ UNCHANGED <<monitorVars, authVars, pageVars, encryptionKey, budget, removals, entropy, now, storeVars, socketVars, calls, hids,
                   results, lastList>>

(***************************************************************************)
(* MonitoringService.performHealthCheck.  A response is the HTTP status of *)
(* the probe (validateStatus accepts every status), or RequestError when   *)
(* axios.get throws (timeout, connection refused).                         *)
(***************************************************************************)
RequestError == 0
Responses == {RequestError, 200, 400}

\* The check failed: request error, or HTTP status >= 400.
FailedCheck(response) == response = RequestError \/ response >= 400

\* INSERT ... VALUES ($1, $2, $3, $4, 0) ON CONFLICT (endpoint) DO UPDATE SET
\* status = $2, consecutive_failures = CASE WHEN $2 THEN 0 ELSE
\* api_health.consecutive_failures + 1 END, with $2 = response.status < 400.
CheckedUpsert(row, status) ==
    IF ~row.present
    THEN [present |-> TRUE, status |-> status < 400, consecutive_failures |-> 0]
    ELSE [present |-> TRUE, status |-> status < 400,
          consecutive_failures |-> IF status < 400 THEN 0
                                   ELSE row.consecutive_failures + 1]

\* The catch block: INSERT ... VALUES ($1, false, 0, $2, 1) ON CONFLICT
\* (endpoint) DO UPDATE SET status = false, consecutive_failures =
\* api_health.consecutive_failures + 1.
ErrorUpsert(row) ==
    IF ~row.present
    THEN [present |-> TRUE, status |-> FALSE, consecutive_failures |-> 1]
    ELSE [present |-> TRUE, status |-> FALSE,
          consecutive_failures |-> row.consecutive_failures + 1]

MaxFailures == 2

\* One run: every endpoint is probed and its row written.
performHealthCheck(responses) ==
    /\ \A e \in Endpoints : failedChecks[e] < MaxFailures
    /\ api_health' = [e \in Endpoints |->
                         IF responses[e] = RequestError
                         THEN ErrorUpsert(api_health[e])
                         ELSE CheckedUpsert(api_health[e], responses[e])]
    /\ failedChecks' = [e \in Endpoints |->
                           IF FailedCheck(responses[e]) THEN failedChecks[e] + 1 ELSE 0]
    /\ UNCHANGED <<chatVars, authVars, pageVars>>

(***************************************************************************)
(* AuthProvider (contexts/AuthContext.tsx): login, logout, verifyToken and *)
(* the effect on [token].  A state update and the effect it triggers are   *)
(* one step.  The server issues each user one token.                       *)
(***************************************************************************)
TokenOf(u) == IF u = "u1" THEN "t1" ELSE "t2"
TokenUser(t) == IF t = "t1" THEN "u1" ELSE "u2"
MaxRequests == 3

\* useEffect(..., [token]) after the token changed from old to new:
\* verifyToken() is called when there is a token, else setLoading(false).
EffectRequests(reqs, old, new, stored) ==
    IF new # old /\ new # NoToken
    THEN reqs \cup {Request(reqs, "verify", stored, NoUser)}
    ELSE reqs

EffectLoading(loading, old, new) ==
    IF new # old /\ new = NoToken THEN FALSE ELSE loading

\* logout(): removeItem('authToken'), setToken(null), setUser(null).
LoggedOut(loading) ==
    [user |-> NoUser, token |-> NoToken, loading |-> EffectLoading(loading, auth.token, NoToken)]

\* The login form is submitted (the login page is shown while there is no
\* user and loading is over): authApi.login is awaited.
LoginRequest(u) ==
    /\ ~auth.loading
    /\ auth.user = NoUser
    /\ Cardinality(requests) < MaxRequests
    /\ requests' = requests \cup {Request(requests, "login", NoToken, u)}
    /\ UNCHANGED <<auth, localStorage, chatVars, monitorVars, pageVars>>

\* authApi.login answers: the token is stored and set, the user is set; or
\* it throws and login rethrows.
LoginResponse(r, ok) ==
    /\ r \in requests
    /\ r.op = "login"
    /\ IF ok
       THEN /\ localStorage' = [authToken |-> TokenOf(r.user)]
            /\ auth' = [auth EXCEPT !.token = TokenOf(r.user), !.user = r.user]
            /\ requests' = EffectRequests(requests \ {r}, auth.token, TokenOf(r.user),
                                          TokenOf(r.user))
       ELSE /\ requests' = requests \ {r}
            /\ UNCHANGED <<auth, localStorage>>
    /\ UNCHANGED <<chatVars, monitorVars, pageVars>>

\* authApi.verifyToken answers: setUser(response.user), or the catch block
\* calls logout(); finally setLoading(false).
VerifyResponse(r, ok) ==
    /\ r \in requests
    /\ r.op = "verify"
    /\ requests' = requests \ {r}
    /\ IF ok
       THEN /\ auth' = [auth EXCEPT !.user = TokenUser(r.token), !.loading = FALSE]
            /\ UNCHANGED localStorage
       ELSE /\ auth' = LoggedOut(FALSE)
            /\ localStorage' = [authToken |-> NoToken]
    /\ UNCHANGED <<chatVars, monitorVars, pageVars>>

\* The user logs out (the pages that offer it are shown while there is a
\* user and loading is over).
Logout ==
    /\ ~auth.loading
    /\ auth.user # NoUser
    /\ localStorage' = [authToken |-> NoToken]
    /\ auth' = LoggedOut(auth.loading)
    /\ UNCHANGED <<requests, chatVars, monitorVars, pageVars>>

(***************************************************************************)
(* ChatPage (pages/ChatPage.tsx): the client of a socket handles the       *)
(* events it was delivered, in order.  The typing events carry             *)
(* { userId: user.id, userName: user.displayName || user.email }.          *)
(***************************************************************************)
UserName(u) == IF u = "u1" THEN "Ann" ELSE "Bob"

\* setTypingUsers(prev => [...prev.filter(id => id !== data.userId), data.userName])
\* when data.userId !== user?.id.
handleUserTyping(prev, own, userId, userName) ==
    IF userId # own
    THEN Append(SelectSeq(prev, LAMBDA id : id # userId), userName)
    ELSE prev

\* setTypingUsers(prev => prev.filter(name => name !== data.userId))
\* when data.userId !== user?.id.
handleUserStoppedTyping(prev, own, userId) ==
    IF userId # own
    THEN SelectSeq(prev, LAMBDA name : name # userId)
    ELSE prev

ClientHandle(s) ==
    /\ handled[s] < Len(inbox[s])
    /\ handled' = [handled EXCEPT ![s] = @ + 1]
    /\ LET ev == inbox[s][handled[s] + 1]
       IN  typingUsers' =
             [typingUsers EXCEPT ![s] =
                 CASE ev.type = "user-typing" ->
                        handleUserTyping(@, SocketUser(s), ev.user, UserName(ev.user))
                   [] ev.type = "user-stopped-typing" ->
                        handleUserStoppedTyping(@, SocketUser(s), ev.user)
                   [] OTHER -> @]
    /\ UNCHANGED <<chatVars, monitorVars, authVars>>

(***************************************************************************)
(* Specifications.                                                         *)
(***************************************************************************)
Callers(vias, socks) == vias \X (socks \cup {"none"}) \X Users

SendRequests(vias, socks, contents) ==
    \/ \E who \in Callers(vias, socks), chatId \in RoomIds, content \in contents,
          t \in MessageTypes :
          SendMessage(who[1], who[2], who[3], chatId, content, t)
    \/ \E c \in calls : InsertOne(c) \/ SendMessageReturn(c)

EditRequests(vias, socks, contents) ==
    \/ \E who \in Callers(vias, socks), messageId \in 1..MaxOps, content \in contents :
          EditMessage(who[1], who[2], who[3], messageId, content)
    \/ \E c \in calls : EditGetChatRoom(c) \/ EditUpdateOne(c) \/ EditMessageReturn(c)

DeleteRequests(vias, socks) ==
    \/ \E who \in Callers(vias, socks), messageId \in 1..MaxOps :
          DeleteMessage(who[1], who[2], who[3], messageId)
    \/ \E c \in calls : DeleteMessageReturn(c)

\* The chat server as its socket clients drive it: rooms, connections and
\* the socket handlers.
Next ==
    \/ Tick
    \/ CreateChatRoom("u1")
    \/ \E s \in SocketIds : Connect(s) \/ Disconnect(s)
    \/ \E s \in SocketIds, roomIds \in SUBSET RoomIds : JoinRooms(s, roomIds)
    \/ \E s \in SocketIds, chatId \in RoomIds : TypingStart(s, chatId) \/ TypingStop(s, chatId)
    \/ SendRequests({"socket"}, SocketIds, {<<"h", "i">>})
    \/ EditRequests({"socket"}, SocketIds, {<<"h", "i">>})
    \/ DeleteRequests({"socket"}, SocketIds)

Spec == Init /\ [][Next]_vars

\* The message store written through either entry path, by one connection
\* that joins no room and by REST clients.
NextStore ==
    \/ Tick
    \/ \E user \in Users : CreateChatRoom(user)
    \/ Connect("s1")
    \/ SendRequests({"socket", "rest"}, {"s1"}, Contents)
    \/ EditRequests({"socket", "rest"}, {"s1"}, Contents)
    \/ DeleteRequests({"socket", "rest"}, {"s1"})

SpecStore == Init /\ [][NextStore]_vars

\* The message store read back: messages are sent, stored ciphertext may be
\* altered from outside, and pages are listed.  A page is looked at before
\* the next step is taken.
ForgetList ==
    /\ lastList # NoList
    /\ lastList' = NoList
    /\ UNCHANGED <<monitorVars, authVars, pageVars, encryptionKey, budget, removals, entropy, now, storeVars, socketVars, calls, hids,
                   results, cipherVars>>

NextRead ==
    \/ ForgetList
    \/ /\ lastList = NoList
       /\ \/ \E chatId \in RoomIds, limit \in Limits, skip \in Skips :
                GetMessages(chatId, limit, skip)
          \/ Tick
          \/ CreateChatRoom("u1")
          \/ Connect("s1")
          \/ SendRequests({"socket"}, {"s1"}, Contents)
          \/ \E m \in messages : Tamper(m)

SpecRead == Init /\ [][NextRead]_vars

\* The sessions alone: connections, rooms joined, typing signals and closes.
NextSession ==
    \/ \E s \in SocketIds : Connect(s) \/ Disconnect(s) \/ CloseAgain(s)
    \/ \E s \in SocketIds, roomIds \in SUBSET RoomIds : JoinRooms(s, roomIds)
    \/ \E s \in SocketIds, chatId \in RoomIds : TypingStart(s, chatId) \/ TypingStop(s, chatId)

SpecSession == Init /\ [][NextSession]_vars

\* The life of a message: its sender posts it, edits it and deletes it over
\* REST, and pages are listed in between.  A page is looked at before the
\* next step is taken.
EditContents == {<<"i", "h", "i">>}

NextLife ==
    \/ ForgetList
    \/ /\ lastList = NoList
       /\ \/ \E chatId \in RoomIds, limit \in Limits, skip \in Skips :
                GetMessages(chatId, limit, skip)
          \/ Tick
          \/ CreateChatRoom("u1")
          \/ SendMessage("rest", "none", "u1", 1, <<"h", "i">>, "text")
          \/ \E messageId \in 1..MaxOps, content \in EditContents :
                EditMessage("rest", "none", "u1", messageId, content)
          \/ \E messageId \in 1..MaxOps : DeleteMessage("rest", "none", "u1", messageId)
          \/ \E c \in calls :
                \/ InsertOne(c) \/ SendMessageReturn(c)
                \/ EditGetChatRoom(c) \/ EditUpdateOne(c) \/ EditMessageReturn(c)
                \/ DeleteMessageReturn(c)

InitLife == Start(MaxOps + 1)

SpecLife == InitLife /\ [][NextLife]_vars

\* Requests that race on one message: its sender posts it over the socket
\* and then edits and deletes it with requests that overlap, while a second
\* session is connected.
RaceContents == {<<"h">>, <<"i">>}

NextRace ==
    \/ Tick
    \/ CreateChatRoom("u1")
    \/ \E s \in SocketIds : Connect(s)
    \/ SendMessage("socket", "s1", "u1", 1, <<"h", "i">>, "text")
    \/ \E messageId \in 1..MaxOps, content \in RaceContents :
          EditMessage("socket", "s1", "u1", messageId, content)
    \/ \E messageId \in 1..MaxOps : DeleteMessage("socket", "s1", "u1", messageId)
    \/ \E c \in calls :
          \/ InsertOne(c) \/ SendMessageReturn(c)
          \/ EditGetChatRoom(c) \/ EditUpdateOne(c) \/ EditMessageReturn(c)
          \/ DeleteMessageReturn(c)

SpecRace == InitLife /\ [][NextRace]_vars

\* The health monitor alone: runs of performHealthCheck.
NextMonitor == \E responses \in [Endpoints -> Responses] : performHealthCheck(responses)

SpecMonitor == Init /\ [][NextMonitor]_vars

\* The client's authentication state alone, in a browser that may hold a
\* token from an earlier visit.
NextAuth ==
    \/ \E u \in Users : LoginRequest(u)
    \/ \E r \in requests, ok \in BOOLEAN : LoginResponse(r, ok) \/ VerifyResponse(r, ok)
    \/ Logout

InitAuth ==
    /\ StartServer(MaxOps)
    /\ \E stored \in {NoToken, "t1"} : Mounted(stored)

SpecAuth == InitAuth /\ [][NextAuth]_vars

\* The sessions and the chat pages of their clients.
NextTyping ==
    \/ NextSession
    \/ \E s \in SocketIds : ClientHandle(s)

SpecTyping == Init /\ [][NextTyping]_vars

\* The cipher alone.
NextCipher ==
    \/ \E text \in Plaintexts, key \in CipherKeys, e \in 0..1 : CipherEncrypt(text, key, e)
    \/ CipherTamper
    \/ \E key \in CipherKeys : CipherDecrypt(key)

SpecCipher == Init /\ [][NextCipher]_vars


(***************************************************************************)
(* Properties.                                                             *)
(***************************************************************************)
RoomEventTypes == {"new-message", "message-edited", "message-deleted",
                   "user-typing", "user-stopped-typing"}

\* The sockets that were delivered an event of the given type by call hid.
Receivers(type, hid) ==
    {s \in SocketIds : \E i \in DOMAIN inbox[s] :
        inbox[s][i].type = type /\ inbox[s][i].hid = hid}

\* C1: a session that has not joined room R never receives a new-message,
\* message-edited, message-deleted, user-typing or user-stopped-typing event
\* caused by an operation on R.  Stated for the events another principal
\* caused (the case in which confidentiality is at stake): every such event
\* in a socket's inbox was delivered while the socket was in the event's room.
C1_OnlyMembersReceive ==
    \A s \in SocketIds : \A i \in DOMAIN inbox[s] :
        (inbox[s][i].type \in RoomEventTypes /\ inbox[s][i].user # SocketUser(s)) =>
            inbox[s][i].member

\* C2: when a send-message for room R succeeds, new-message is delivered to
\* exactly the sockets that are connected and joined to R when the handler
\* emits it, the sender's own socket included when it has joined R, and the
\* event carries the sent content.
C2_NewMessageAudience ==
    \A r \in results :
        (r.op = "send" /\ r.via = "socket" /\ r.ok) =>
            /\ Receivers("new-message", r.hid) = r.audience
            /\ \A s \in SocketIds : \A i \in DOMAIN inbox[s] :
                  (inbox[s][i].type = "new-message" /\ inbox[s][i].hid = r.hid) =>
                      /\ inbox[s][i].room = r.chatId
                      /\ inbox[s][i].member

\* C2 witness: a send succeeded, the sender's own socket and another socket
\* were in the room and received it.
C2_Witness ==
    \E r \in results :
        /\ r.op = "send" /\ r.ok
        /\ r.sock \in r.audience
        /\ r.audience # {r.sock}
        /\ Receivers("new-message", r.hid) = r.audience

\* C3: for a fixed room, a socket observes new-message events in the order
\* of the stored log, that is by ascending stored timestamp.
C3_DeliveryInLogOrder ==
    \A s \in SocketIds : \A i, j \in DOMAIN inbox[s] :
        (/\ i < j
         /\ inbox[s][i].type = "new-message"
         /\ inbox[s][j].type = "new-message"
         /\ inbox[s][i].room = inbox[s][j].room) =>
            inbox[s][i].at <= inbox[s][j].at

(***************************************************************************)
(* The invocation, suspended or finished, that was given the number hid.   *)
(***************************************************************************)
Invoker(hid) ==
    IF \E c \in calls : c.hid = hid
    THEN (CHOOSE c \in calls : c.hid = hid).user
    ELSE IF \E r \in results : r.hid = hid
    THEN (CHOOSE r \in results : r.hid = hid).user
    ELSE "none"

\* An edit or delete that addressed an existing message of another sender.
ByNonOwner(r) == r.op \in {"edit", "delete"} /\ r.owner \notin {"none", r.user}

\* C4: editMessage or deleteMessage by a principal other than the message's
\* sender is refused (the service returns false: 404 'Message not found or
\* unauthorized' over REST, an error event to the requester alone over the
\* socket; 500 when the database fails), no message-edited or message-deleted
\* event is emitted for it, and the stored message is untouched: every write
\* to a stored message and every removal was made by its sender.
C4_NonOwnerRefused ==
    /\ \A r \in results :
          ByNonOwner(r) =>
              /\ ~r.ok
              /\ r.via = "rest" => r.status \in {404, 500}
              /\ r.via = "socket" => Receivers("error", r.hid) = {r.sock}
              /\ Receivers("message-edited", r.hid) = {}
              /\ Receivers("message-deleted", r.hid) = {}
              /\ \A m \in messages : r.hid \notin m.writers
              /\ \A d \in deleted : d.by # r.hid
    /\ \A m \in messages : \A h \in m.writers : Invoker(h) = m.senderId
    /\ \A d \in deleted : Invoker(d.by) = d.doc.senderId

\* C4 witness: an edit or delete by another principal was refused and the
\* message it addressed is stored as its sender wrote it.
C4_Witness ==
    \E r \in results :
        /\ ByNonOwner(r)
        /\ ~r.ok
        /\ \E m \in messages :
              /\ m._id = r.msgId
              /\ m.senderId # r.user
              /\ ~m.edited
              /\ m.content = <<"h", "i">>

\* C5: every room holds one key and no two distinct rooms hold the same key.
C5_DistinctRoomKeys ==
    \A i, j \in DOMAIN chatrooms :
        /\ chatrooms[i].encryptionKey \in Nat
        /\ i # j => chatrooms[i].encryptionKey # chatrooms[j].encryptionKey

\* C6: a stored message record holds the message body only in encrypted
\* form: its content field holds no text.
C6_NoPlaintextPersisted ==
    \A m \in messages : m.content = <<>>

\* The ids of the messages whose insert the database has acknowledged.
InsertedIds == {m._id : m \in messages} \cup {d.doc._id : d \in deleted}

C8_RoundTrip ==
    \A i \in DOMAIN lastList.out :
        lastList.found[i]._id \notin tampered =>
            /\ lastList.out[i].content = lastList.found[i].content
            /\ JsonParse(lastList.found[i].encryptedContent).encrypted
                   # lastList.found[i].content

\* C9: decrypt fails closed: when the bytes of the ciphertext or of the tag
\* differ from what encrypt produced, when the tag is missing or empty, or
\* when the key is not the one used to encrypt, decrypt yields no plaintext.
C9_FailsClosed ==
    (/\ cin.op = "decrypted"
     /\ \/ FromHex(cin.enc.encrypted) # FromHex(cin.orig.encrypted)
        \/ ~TagIsTruthy(cin.enc)
        \/ FromHex(cin.enc.tag) # FromHex(cin.orig.tag)
        \/ cin.dkey # cin.key)
        => ~cout.ok

\* Whether the stored ciphertext of m decrypts under the key of its room.
Decrypts(m) ==
    /\ JsonParses(m.encryptedContent)
    /\ decrypt(JsonParse(m.encryptedContent), chatrooms[m.chatId].encryptionKey).ok

StoredDocs == messages \cup {d.doc : d \in deleted}

\* C11: a send whose content is empty or longer than 5000 units, or whose
\* kind is not recognised, is rejected on every entry path before any state
\* change: no send with such an input is issued to the store, no document
\* that sendMessage wrote holds one, and no new-message event carries one.
C11_InvalidSendRejected ==
    /\ \A c \in calls :
          c.op = "send" => ValidContent(c.content) /\ ValidMessageType(c.doc.messageType)
    /\ \A m \in StoredDocs :
          ~m.edited => ValidContent(m.content) /\ ValidMessageType(m.messageType)
    /\ \A s \in SocketIds : \A i \in DOMAIN inbox[s] :
          inbox[s][i].type = "new-message" => ValidContent(inbox[s][i].content)

\* C12: a send addressed to a room id that does not exist fails (sendMessage
\* throws 'Chat room encryption key not found'), stores no message, causes no
\* new-message event at any socket, and the error event goes to the calling
\* socket alone.
C12_UnknownRoomSend ==
    \A r \in results :
        (r.op = "send" /\ ~RoomExists(r.chatId)) =>
            /\ ~r.ok
            /\ \A m \in StoredDocs : m._id # r.hid /\ m.chatId # r.chatId
            /\ \A c \in calls : c.hid # r.hid
            /\ Receivers("new-message", r.hid) = {}
            /\ r.via = "socket" => Receivers("error", r.hid) = {r.sock}

\* C12 witness: a send to a room id that does not exist was refused while
\* another socket was connected and had joined that id; only the sender got
\* the error.
C12_Witness ==
    \E r \in results :
        /\ r.op = "send" /\ ~RoomExists(r.chatId) /\ ~r.ok
        /\ \E s \in connected \ {r.sock} : r.chatId \in joined[s] /\ inbox[s] = <<>>
        /\ Receivers("error", r.hid) = {r.sock}

\* C13: getMessages(chatId, limit, skip) returns exactly the messages of the
\* room ranked skip+1 .. skip+limit counting from the newest (messages of
\* equal timestamp rank in either order), in ascending timestamp order, and
\* no message of another room.
C13_PageOfRoom ==
    lastList # NoList =>
        LET docs  == {m \in messages : m.chatId = lastList.chatId}
            out   == lastList.out
            k     == Len(lastList.out)
            avail == IF Cardinality(docs) > lastList.skip
                     THEN Cardinality(docs) - lastList.skip ELSE 0
        IN  /\ k = IF avail < lastList.limit THEN avail ELSE lastList.limit
            /\ \A i \in 1..k :
                  \E m \in docs : m._id = out[i]._id /\ m.timestamp = out[i].timestamp
            /\ \A i, j \in 1..k :
                  i < j => out[i]._id # out[j]._id /\ out[i].timestamp <= out[j].timestamp
            /\ \A i \in 1..k :
                  LET rank == lastList.skip + k - i + 1
                  IN  /\ Cardinality({m \in docs : m.timestamp > out[i].timestamp}) < rank
                      /\ rank <= Cardinality({m \in docs : m.timestamp >= out[i].timestamp})

\* C13 witness: a room holds two messages of different timestamps and the
\* page limit 1, skip 1 is the older message alone.
C13_Witness ==
    /\ lastList.limit = 1 /\ lastList.skip = 1
    /\ Len(lastList.out) = 1
    /\ \E m \in messages :
          /\ m.chatId = lastList.chatId
          /\ m.timestamp > lastList.out[1].timestamp

\* The content the last listing returned for message id, if it returned it.
ListedContents(id) ==
    {lastList.out[i].content : i \in {j \in DOMAIN lastList.out : lastList.out[j]._id = id}}

\* C14: an edit by the message's sender succeeds unless the database fails
\* or the message was deleted meanwhile; after it (and no other edit) the
\* stored message is flagged edited, carries an edit timestamp, its ciphertext
\* decrypts under the room's key to the new content, and a listing that
\* covers the message returns the new content.
C14_OwnerEdit ==
    /\ \A r \in results :
          (r.op = "edit" /\ r.owner = r.user /\ ~r.ok) =>
              \/ r.status = 500
              \/ r.status = 404 /\ r.msgId \in {d.doc._id : d \in deleted}
    /\ \A r \in results :
          (r.op = "edit" /\ r.ok) =>
              /\ r.owner = r.user
              /\ \A m \in messages :
                    (m._id = r.msgId /\ m.writers = {r.hid}) =>
                        /\ m.senderId = r.user
                        /\ m.edited
                        /\ m.editedAt \in m.timestamp..now
                        /\ JsonParses(m.encryptedContent)
                        /\ decrypt(JsonParse(m.encryptedContent),
                                   chatrooms[m.chatId].encryptionKey)
                               = [ok |-> TRUE, text |-> r.content]
                        /\ ListedContents(m._id) \subseteq {r.content}

\* C14 witness: the sender edited a message sent as "hi", and a listing
\* returned it with the new content.
C14_Witness ==
    \E r \in results :
        /\ r.op = "edit" /\ r.ok
        /\ r.content # <<"h", "i">>
        /\ \E m \in messages : m._id = r.msgId /\ m.writers = {r.hid} /\ m.edited
        /\ ListedContents(r.msgId) = {r.content}

\* C15: a delete by the message's sender removes the record and returns true
\* (unless the database fails); from then on the message is not stored and no
\* listing returns it; a delete of an id that is not stored returns false and
\* removes nothing.
C15_OwnerDelete ==
    /\ \A r \in results :
          (r.op = "delete" /\ r.owner = r.user) => (r.ok \/ r.status = 500)
    /\ \A r \in results :
          (r.op = "delete" /\ r.ok) =>
              /\ r.owner = r.user
              /\ \A m \in messages : m._id # r.msgId
              /\ \E d \in deleted : d.by = r.hid /\ d.doc._id = r.msgId
              /\ ListedContents(r.msgId) = {}
    /\ \A r \in results :
          (r.op = "delete" /\ r.owner = "none") =>
              /\ ~r.ok
              /\ r.status \in {404, 500}
              /\ \A d \in deleted : d.by # r.hid
    /\ \A d1, d2 \in deleted : d1.doc._id = d2.doc._id => d1 = d2

\* C15 witness: the sender deleted its message, a second delete of the same
\* id returned false, and a listing of the room is empty.
C15_Witness ==
    \E r1, r2 \in results :
        /\ r1.op = "delete" /\ r1.ok
        /\ r2.op = "delete" /\ ~r2.ok /\ r2.msgId = r1.msgId /\ r2.status = 404
        /\ r2.owner = "none"
        /\ lastList # NoList /\ lastList.chatId = 1 /\ lastList.skip = 0
        /\ lastList.out = <<>>

Appended(t) == inbox'[t][Len(inbox'[t])]

\* A step delivered one event of the given type, room and sender to exactly
\* the connected sockets of the room other than s, and nothing to any other.
DeliveredToOthersInRoom(type, s, chatId) ==
    \A t \in SocketIds :
        IF t \in connected /\ chatId \in joined[t] /\ t # s
        THEN /\ Len(inbox'[t]) = Len(inbox[t]) + 1
             /\ SubSeq(inbox'[t], 1, Len(inbox[t])) = inbox[t]
             /\ Appended(t).type = type
             /\ Appended(t).room = chatId
             /\ Appended(t).user = SocketUser(s)
        ELSE inbox'[t] = inbox[t]

\* C18: typing-start from socket S for room R delivers user-typing to every
\* socket joined to R other than S, to no socket outside R and never to S;
\* typing-stop delivers user-stopped-typing to the same sockets.
C18_TypingRecipients ==
    [][\A s \in SocketIds, chatId \in RoomIds :
          /\ TypingStart(s, chatId) => DeliveredToOthersInRoom("user-typing", s, chatId)
          /\ TypingStop(s, chatId) =>
                DeliveredToOthersInRoom("user-stopped-typing", s, chatId)]_vars

\* C18 witness: a socket in a room signalled typing-start and typing-stop;
\* the other socket of the room received both, the sender received nothing.
C18_Witness ==
    \E s, t \in connected :
        /\ s # t
        /\ joined[s] \cap joined[t] # {}
        /\ inbox[s] = <<>>
        /\ Len(inbox[t]) = 2
        /\ inbox[t][1].type = "user-typing" /\ inbox[t][1].member
        /\ inbox[t][1].user = SocketUser(s)
        /\ inbox[t][2].type = "user-stopped-typing" /\ inbox[t][2].member
        /\ inbox[t][2].user = SocketUser(s)

\* C19: a room is stored together with its key: every stored room holds a
\* key, every send that went on to encrypt found the key of its room, and
\* the participants of a room are its creator alone.
C19_RoomHasKeyAndCreator ==
    /\ \A i \in DOMAIN chatrooms :
          /\ HasEncryptionKey(i)
          /\ chatrooms[i].createdBy \in Users
          /\ chatrooms[i].participants = {chatrooms[i].createdBy}
    /\ \A c \in calls : c.op = "send" => HasEncryptionKey(c.chatId)
    /\ \A m \in StoredDocs : HasEncryptionKey(m.chatId)

\* C19 witness: two rooms created by different principals, and a message
\* stored in one of them.
C19_Witness ==
    /\ Len(chatrooms) = 2
    /\ chatrooms[1].createdBy # chatrooms[2].createdBy
    /\ chatrooms[2].participants = {chatrooms[2].createdBy}
    /\ \E m \in messages : m.chatId = 2 /\ Decrypts(m)

\* A step appended one event of the given type and room to the inbox of t.
Received(t, type, chatId) ==
    /\ Len(inbox'[t]) = Len(inbox[t]) + 1
    /\ Appended(t).type = type
    /\ Appended(t).room = chatId

\* C20: join-rooms puts the socket into every listed room without looking at
\* the room's participants, and from then on the socket is delivered the
\* room's new-message and typing events like any other socket of the room.
C20_JoinIgnoresParticipants ==
    [][/\ \A s \in SocketIds, roomIds \in SUBSET RoomIds :
             JoinRooms(s, roomIds) => roomIds \subseteq joined'[s]
       /\ \A t \in connected, c \in calls :
             (SendMessageReturn(c) /\ c.pc = "inserted" /\ c.chatId \in joined[t]) =>
                 Received(t, "new-message", c.chatId)
       /\ \A t \in connected : \A s \in SocketIds \ {t}, chatId \in joined[t] :
             /\ TypingStart(s, chatId) => Received(t, "user-typing", chatId)
             /\ TypingStop(s, chatId) => Received(t, "user-stopped-typing", chatId)]_vars

\* C20 witness: a socket whose user is not a participant of a room joined
\* it and received a new-message and a user-typing event of that room.
C20_Witness ==
    \E t \in connected : \E chatId \in joined[t] :
        /\ RoomExists(chatId)
        /\ SocketUser(t) \notin chatrooms[chatId].participants
        /\ \E i, j \in DOMAIN inbox[t] :
              /\ inbox[t][i].type = "new-message"
              /\ inbox[t][i].room = chatId /\ inbox[t][i].member
              /\ inbox[t][i].user # SocketUser(t)
              /\ inbox[t][j].type = "user-typing"
              /\ inbox[t][j].room = chatId /\ inbox[t][j].member

\* The nonce of the cipher that encrypt(text, key) creates in the call that
\* made draw e: createCipher is given the key alone, the drawn iv is only
\* returned.
UsedNonce(key, e) == DerivedNonce(FromHex(generateKey(key)))

\* The draw persisted as iv next to the ciphertext of m.
PersistedIv(m) == JsonParse(m.encryptedContent).iv

\* C21: no two encrypt calls under the same key use the same nonce, and the
\* nonce persisted with a ciphertext is the one the cipher used: every stored
\* ciphertext carries a nonce no other holds, and for two stored ciphertexts
\* under one key the ciphers' nonces differ as the persisted nonces do.
C21_FreshNonce ==
    \A m1, m2 \in messages :
        (/\ m1._id # m2._id
         /\ chatrooms[m1.chatId].encryptionKey = chatrooms[m2.chatId].encryptionKey) =>
            /\ PersistedIv(m1) # PersistedIv(m2)
            /\ UsedNonce(chatrooms[m1.chatId].encryptionKey, PersistedIv(m1))
                   # UsedNonce(chatrooms[m2.chatId].encryptionKey, PersistedIv(m2))

\* C22: within one room the timestamps are strictly increasing in the order
\* in which the messages become durable: a message that the store takes in
\* carries a timestamp above that of every message of its room already stored.
C22_TimestampsIncreaseInCommitOrder ==
    [][\A m \in messages' :
          m._id \notin {o._id : o \in messages} =>
              \A o \in messages : o.chatId = m.chatId => o.timestamp < m.timestamp]_vars

\* The content, ciphertext and edit timestamp a message is stored with.
EditedFields(m) == <<m.content, m.encryptedContent, m.edited, m.editedAt>>

\* C23: when edits of one message by its sender overlap, the stored state is
\* that of the edit whose update committed last: every step that changes the
\* stored content, ciphertext or edit timestamp of a message is the update of
\* one edit and leaves all three as that edit computed them, the ciphertext
\* decrypting to the content.
C23_LastCommittedEditWins ==
    [][\A m \in messages : \A n \in messages' :
          (n._id = m._id /\ EditedFields(n) # EditedFields(m)) =>
              \E c \in calls :
                  /\ c.op = "edit" /\ c.pc = "updateOne"
                  /\ c.msgId = m._id /\ c.user = m.senderId
                  /\ [c EXCEPT !.pc = "updated"] \in calls'
                  /\ EditedFields(n) = <<c.content, c.doc.encryptedContent, TRUE, c.doc.editedAt>>
                  /\ decrypt(JsonParse(n.encryptedContent),
                             chatrooms[n.chatId].encryptionKey)
                         = [ok |-> TRUE, text |-> c.content]]_vars

\* C23 witness: two edits of one message overlapped and both committed; the
\* stored state is that of the edit that was stamped first and committed
\* last, and differs from the other edit in content and edit timestamp.
C23_Witness ==
    \E c1, c2 \in calls : \E m \in messages :
        /\ c1.op = "edit" /\ c1.pc = "updated"
        /\ c2.op = "edit" /\ c2.pc = "updated"
        /\ m.writers = {c1.hid, c2.hid}
        /\ c1.content # c2.content
        /\ c2.doc.editedAt < c1.doc.editedAt
        /\ EditedFields(m) = <<c2.content, c2.doc.encryptedContent, TRUE, c2.doc.editedAt>>

\* The positions in the inbox of t of the events of the given type that
\* user caused.
EventsOf(inb, t, type, user) ==
    {i \in DOMAIN inb[t] : inb[t][i].type = type /\ inb[t][i].user = user}

\* C24: the disconnect of a socket delivers no user-stopped-typing event for
\* its user, and none is delivered afterwards: a typing signal that was not
\* cleared before the disconnect is never cleared.
C24_NoStoppedAfterDisconnect ==
    [][\A s \in SocketIds :
          s \in closed' =>
              \A t \in SocketIds :
                  EventsOf(inbox', t, "user-stopped-typing", SocketUser(s))
                      = EventsOf(inbox, t, "user-stopped-typing", SocketUser(s))]_vars

\* C24 witness: a socket signalled typing-start in a room and disconnected;
\* the other socket of the room holds the user-typing event, then the
\* user-offline event, and no user-stopped-typing event of that user.
C24_Witness ==
    \E s \in closed, t \in connected :
        /\ joined[t] # {}
        /\ \E i, j \in DOMAIN inbox[t] :
              /\ i < j
              /\ inbox[t][i].type = "user-typing" /\ inbox[t][i].user = SocketUser(s)
              /\ inbox[t][i].room \in joined[t]
              /\ inbox[t][j].type = "user-offline" /\ inbox[t][j].user = SocketUser(s)
        /\ EventsOf(inbox, t, "user-stopped-typing", SocketUser(s)) = {}

\* The content of the last message-edited event for message id in the inbox
\* of socket s, as a set (empty when there is none).
LastEditedContent(s, id) ==
    LET at == {i \in DOMAIN inbox[s] :
                  inbox[s][i].type = "message-edited" /\ inbox[s][i].msgId = id}
    IN  {inbox[s][i].content : i \in {j \in at : \A k \in at : k <= j}}

\* C25: once no edit of a message is in progress, the last message-edited
\* event for it that a connected socket was delivered carries the content
\* the store holds for the message.
C25_LastEventIsPersistedContent ==
    \A m \in messages :
        (\A c \in calls : ~(c.op = "edit" /\ c.msgId = m._id)) =>
            \A s \in connected : LastEditedContent(s, m._id) \subseteq {m.content}

\* The sockets that were delivered any event by call hid.
ReceiversOfAny(hid) ==
    {s \in SocketIds : \E i \in DOMAIN inbox[s] : inbox[s][i].hid = hid}

\* C26: a message-edited or message-deleted event is emitted only after the
\* store mutation it reports has succeeded (no edit or delete still in
\* progress has emitted anything, every message-edited event belongs to an
\* update that wrote the message, every message-deleted event to a delete
\* that removed it); an edit or delete that returned false or threw caused
\* an error event at the requesting socket alone and nothing anywhere else.
C26_EventsOnlyAfterSuccess ==
    /\ \A c \in calls : c.op \in {"edit", "delete"} => ReceiversOfAny(c.hid) = {}
    /\ \A s \in SocketIds : \A i \in DOMAIN inbox[s] :
          /\ inbox[s][i].type = "message-edited" =>
                /\ \E m \in StoredDocs :
                      m._id = inbox[s][i].msgId /\ inbox[s][i].hid \in m.writers
                /\ \E r \in results : r.hid = inbox[s][i].hid /\ r.op = "edit" /\ r.ok
          /\ inbox[s][i].type = "message-deleted" =>
                /\ \E d \in deleted :
                      d.doc._id = inbox[s][i].msgId /\ d.by = inbox[s][i].hid
                /\ \E r \in results : r.hid = inbox[s][i].hid /\ r.op = "delete" /\ r.ok
    /\ \A r \in results :
          (r.op \in {"edit", "delete"} /\ ~r.ok) =>
              /\ Receivers("error", r.hid) = {r.sock}
              /\ ReceiversOfAny(r.hid) = {r.sock}
              /\ Receivers("message-edited", r.hid) = {}
              /\ Receivers("message-deleted", r.hid) = {}

\* C26 witness: with a second socket connected, an edit by the sender failed
\* after it had found the message and a delete succeeded; the second socket
\* received message-deleted and nothing of the failed edit, whose error
\* went to the requester.
C26_Witness ==
    \E r, d \in results :
        /\ r.op = "edit" /\ ~r.ok /\ r.owner = r.user
        /\ d.op = "delete" /\ d.ok
        /\ connected = SocketIds
        /\ Receivers("message-deleted", d.hid) = SocketIds
        /\ ReceiversOfAny(r.hid) = {r.sock}
        /\ Receivers("error", r.hid) = {r.sock}

\* C27: an edit that races a delete of the same message never re-creates it:
\* a message that was deleted is not stored again, and an edit whose update
\* wrote nothing returns failure and causes no message-edited event.
C27_EditNeverRecreates ==
    /\ \A d \in deleted : \A m \in messages : m._id # d.doc._id
    /\ \A c \in calls :
          (c.op = "edit" /\ c.pc = "unmodified") =>
              /\ \A m \in StoredDocs : c.hid \notin m.writers
              /\ Receivers("message-edited", c.hid) = {}
    /\ \A r \in results :
          (r.op = "edit" /\ \A m \in StoredDocs : r.hid \notin m.writers) =>
              /\ ~r.ok
              /\ Receivers("message-edited", r.hid) = {}

\* C27 witness: an edit found the message, a delete that started later
\* removed it, and the edit's update then found no record: the message is
\* not stored and the edit wrote nothing.
C27_Witness ==
    \E c \in calls : \E d \in deleted :
        /\ c.op = "edit" /\ c.pc = "unmodified"
        /\ d.doc._id = c.msgId
        /\ d.by > c.hid
        /\ c.hid \notin d.doc.writers
        /\ \A m \in messages : m._id # c.msgId

\* C28: after any sequence of performHealthCheck runs, the stored
\* consecutive_failures of every endpoint equals the number of failed checks
\* since the endpoint's last successful check, and is 0 right after a
\* successful check.
C28_ConsecutiveFailuresCount ==
    \A e \in Endpoints :
        api_health[e].present =>
            /\ api_health[e].consecutive_failures = failedChecks[e]
            /\ api_health[e].status => api_health[e].consecutive_failures = 0

\* C29: in the client auth state, whenever the token is null the user is
\* null: after logout no later step sets a user, a token verification that
\* was in flight when logout ran included.
C29_NoUserWithoutToken ==
    auth.token = NoToken => auth.user = NoUser

\* The positions of the typing list of the client of s that are an entry
\* for user u: its name, or its id.
EntriesFor(s, u) ==
    {i \in DOMAIN typingUsers[s] : typingUsers[s][i] \in {UserName(u), u}}

\* C30: the typing list of a client holds at most one entry per typing user,
\* and when the event the client handled last is user-stopped-typing of user
\* U, the list holds no entry for U.
C30_TypingListEntries ==
    \A s \in SocketIds :
        /\ \A u \in Users : Cardinality(EntriesFor(s, u)) <= 1
        /\ (handled[s] > 0 /\ inbox[s][handled[s]].type = "user-stopped-typing") =>
              EntriesFor(s, inbox[s][handled[s]].user) = {}

=============================================================================
